---- MODULE Spec2Model ----
(***************************************************************************)
(* Meridian / SimpleBEX: the application shell (js/app.js), the scene      *)
(* orchestrator (js/engine/scene.js), the asset manager and the utility    *)
(* helpers (assetManager.js, utility.js) and the light factory (light.js). *)
(*                                                                         *)
(* JavaScript runs one macrotask at a time; the continuation of an await   *)
(* is a microtask and runs before the next macrotask.  A synchronous run   *)
(* of the program is cut into steps with a program counter (app.pc); an     *)
(* engine callback is one action.                                          *)
(***************************************************************************)
EXTENDS Integers, Sequences, FiniteSets, TLC

VARIABLES
    app,    \* the SimpleBEXApp instance: its fields and the position of initialize()
    ui,     \* the loading screen: every percent passed to updateLoadingProgress, and what is shown
    cons,   \* number of lines written with console.error
    sc,     \* the Scene instance: phases started, the asset-load promise, the lights
    am,     \* the AssetManager instance and the engine's BABYLON.AssetsManager behind it
    calls,  \* invocations of the callbacks a direct caller passed to AssetManager.loadAssets
    thrown, \* an exception left a handler uncaught
    unit    \* the direct caller of the exported functions: what it called and what came back

vars == <<app, ui, cons, sc, am, calls, thrown, unit>>

----------------------------------------------------------------------------
(* Bounds of the model *)

MaxAssets == 3

MaxLights == 2

MaxBatches == 2

MaxCalls == 2

MaxCoord == 1

----------------------------------------------------------------------------
(* Values *)

NULL == "null"

Msg(text) == [prefix |-> "", text |-> text]

ErrorMsg(text) == [prefix |-> "Error: ", text |-> text]

NoMsg == Msg("")

LightTypes == {"POINT", "SPOT", "SUN", "DIRECTIONAL", "AREA", "undefined"}

(* a colour is [r, g, b]; an intensity is counted in tenths (10 is 1.0); a   *)
(* field the entry does not carry is the empty tuple                        *)
White == <<1, 1, 1>>

Red == <<1, 0, 0>>

NoColor == <<>>

NoIntensity == <<>>

(* a transform is an array of 16 numbers, column-major: the translation is  *)
(* in elements 12, 13, 14 and the bottom row in elements 3, 7, 11, 15; the  *)
(* rotations drawn are the identity and the half turns about the axes       *)
NoMatrix == <<>>

Matrix(rot, t, bottom) ==
    <<rot[1], 0, 0, bottom[1],  0, rot[2], 0, bottom[2],  0, 0, rot[3], bottom[3],
      t[1], t[2], t[3], 1>>

HalfTurns == {<<1, 1, 1>>, <<1, -1, -1>>, <<-1, 1, -1>>, <<-1, -1, 1>>}

Coords == -MaxCoord..MaxCoord

Matrices ==
    {Matrix(rot, t, bottom) : rot \in HalfTurns, t \in Coords \X Coords \X Coords,
                              bottom \in {0, 1} \X {0, 1} \X {0, 1}}

CameraMatrix == Matrix(<<1, 1, 1>>, <<0, 2, -10>>, <<0, 0, 0>>)

LightMatrix == Matrix(<<1, 1, 1>>, <<0, 10, 0>>, <<0, 0, 0>>)

(* an entry of scene_lights in a manifest *)
LightData ==
    [type : LightTypes, castShadows : BOOLEAN, isNull : {FALSE},
     color : {Red}, intensity : {<<20>>}, matrix : {LightMatrix}]

(* the lightData a direct caller of setupLights passes *)
LightInputs ==
    [type : LightTypes, castShadows : BOOLEAN, isNull : {FALSE},
     color : {NoColor, Red}, intensity : {NoIntensity, <<0>>, <<20>>}, matrix : {NoMatrix}]

(* a light entry that carries a type and a matrix only *)
LightAt(type, matrix) ==
    [type |-> type, castShadows |-> FALSE, isNull |-> FALSE,
     color |-> NoColor, intensity |-> NoIntensity, matrix |-> matrix]

NullLight ==
    [type |-> "undefined", castShadows |-> FALSE, isNull |-> TRUE,
     color |-> NoColor, intensity |-> NoIntensity, matrix |-> NoMatrix]

SceneLightLists == UNION {[1..n -> LightData \cup {NullLight}] : n \in 0..MaxLights}

(* scene_cameras[0]: missing, or the camera entry of createDefaultProject *)
NoCameraData == [present |-> FALSE, matrix |-> NoMatrix, applyGravity |-> FALSE]

CameraData == [present |-> TRUE, matrix |-> CameraMatrix, applyGravity |-> FALSE]

(* the same entry with applyGravity: true *)
GravityCameraData == [CameraData EXCEPT !.applyGravity = TRUE]

(* skybox: environment.backgroundType is "texture" or "sky" and a           *)
(* skyboxTexture is named; the manifests drawn with a skybox are those of   *)
(* a scene with the camera entry and without debug                          *)
Manifests ==
    [hasScene : BOOLEAN, debug : BOOLEAN, glb : 0..MaxAssets, lights : SceneLightLists,
     camera : {NoCameraData, CameraData}, skybox : {FALSE}]
    \cup [hasScene : {TRUE}, debug : {FALSE}, glb : 0..MaxAssets, lights : SceneLightLists,
          camera : {CameraData}, skybox : {TRUE}]

DefaultProject ==
    [hasScene |-> TRUE, debug |-> FALSE, glb |-> 0, camera |-> CameraData, skybox |-> FALSE,
     lights |-> <<[type |-> "SUN", castShadows |-> TRUE, isNull |-> FALSE,
                   color |-> White, intensity |-> <<10>>, matrix |-> LightMatrix]>>]

NoValue ==
    [hasScene |-> FALSE, debug |-> FALSE, glb |-> 0, lights |-> <<>>, camera |-> NoCameraData,
     skybox |-> FALSE]

JsonText(v) == [t |-> "json", isNull |-> FALSE, v |-> v]

NullText == [t |-> "json", isNull |-> TRUE, v |-> NoValue]

GarbageText == [t |-> "garbage", isNull |-> FALSE, v |-> NoValue]

NoText == [t |-> "none", isNull |-> FALSE, v |-> NoValue]

Response(net, ok, readable, text) == [net |-> net, ok |-> ok, readable |-> readable, text |-> text]

NoResponse == Response(FALSE, FALSE, FALSE, NoText)

Responses(texts) ==
    {Response(FALSE, FALSE, FALSE, NoText),
     Response(TRUE, FALSE, TRUE, NoText),
     Response(TRUE, TRUE, FALSE, NoText)}
    \cup {Response(TRUE, TRUE, TRUE, t) : t \in texts}

(* a mesh name is the sequence of its parts; String.includes looks for a part *)
includes(name, part) == \E k \in DOMAIN name : name[k] = part

SkyBox == <<"skyBox">>

(* the meshes in the file of task i: one mesh; the second file of a batch   *)
(* holds a mesh with skyBox in its name.  scene.meshes, and the render list *)
(* of a shadow map, are kept as the set of the meshes they hold             *)
LoadedMeshes(i) ==
    IF i = 2 THEN {<<"skyBox", "_", ToString(i)>>} ELSE {<<"mesh", "_", ToString(i)>>}

AssetTypes == {"model", "texture", "audio", "hdr", "bogus"}

AssetLists == UNION {[1..n -> [type : AssetTypes]] : n \in 0..MaxAssets}

Callbacks(name) == {NULL, name}

----------------------------------------------------------------------------
(* The heap the handlers work on: every operation below maps a heap to a heap *)

Heap == [ui |-> ui, cons |-> cons, sc |-> sc, am |-> am, calls |-> calls, thrown |-> thrown]

Commit(h) ==
    /\ ui' = h.ui
    /\ cons' = h.cons
    /\ sc' = h.sc
    /\ am' = h.am
    /\ calls' = h.calls
    /\ thrown' = h.thrown

----------------------------------------------------------------------------
(* utility.js *)

log(h, isError) == IF isError THEN [h EXCEPT !.cons = @ + 1] ELSE h

JSONparse(text) == [threw |-> text.t # "json", isNull |-> text.isNull, v |-> text.v]

Settled(rejected, isNull, json, text, errors) ==
    [rejected |-> rejected, isNull |-> isNull, json |-> json, text |-> text, errors |-> errors]

loadJSONRethrow(resp) ==
    IF ~resp.net \/ ~resp.ok \/ ~resp.readable
    THEN Settled(TRUE, TRUE, NoValue, NoText, 1)
    ELSE LET p == JSONparse(resp.text) IN
         IF p.threw
         THEN Settled(TRUE, TRUE, NoValue, NoText, 1)
         ELSE Settled(FALSE, p.isNull, p.v, NoText, 0)

loadJSON(resp) ==
    IF ~resp.net \/ ~resp.ok \/ ~resp.readable
    THEN Settled(FALSE, TRUE, NoValue, NoText, 1)
    ELSE LET p == JSONparse(resp.text) IN
         IF p.threw
         THEN Settled(FALSE, TRUE, NoValue, NoText, 1)
         ELSE Settled(FALSE, p.isNull, p.v, NoText, 0)

loadTextFileNoCatch(resp) ==
    IF ~resp.net \/ ~resp.ok
    THEN Settled(FALSE, TRUE, NoValue, NoText, 1)
    ELSE IF ~resp.readable
    THEN Settled(TRUE, TRUE, NoValue, NoText, 0)
    ELSE Settled(FALSE, FALSE, NoValue, resp.text, 0)

loadTextFile(resp) ==
    IF ~resp.net \/ ~resp.ok \/ ~resp.readable
    THEN Settled(FALSE, TRUE, NoValue, NoText, 1)
    ELSE Settled(FALSE, FALSE, NoValue, resp.text, 0)

----------------------------------------------------------------------------
(* app.js: the loading screen *)

NoEvent == [type |-> "none", key |-> "none"]

(* the loading screen of the page before initialize has touched it, and     *)
(* what the window has seen of the keyboard since the camera was set up:    *)
(* the last key event, the last event of the Shift key, and whether the     *)
(* space key went down an odd number of times; and the document: the        *)
(* element the pointer is locked to, whether the canvas has asked for the   *)
(* lock, the pointer-lock change events not yet delivered, the mousemove    *)
(* listeners, and how often the last mouse move turned the camera           *)
LoadingScreen ==
    [log |-> <<>>, percent |-> 0, message |-> NoMsg, opacity |-> "1", display |-> "block",
     lastEvent |-> NoEvent, lastShift |-> "none", spaceOdd |-> FALSE,
     pointerLockElement |-> NULL, lockRequested |-> FALSE, lockEvents |-> 0,
     mousemove |-> <<>>, lastMove |-> 0]

updateLoadingProgress(h, percent, message) ==
    [h EXCEPT !.ui.log = Append(@, percent), !.ui.percent = percent, !.ui.message = message]

----------------------------------------------------------------------------
(* Callbacks.  A callback is named by what it does when called:             *)
(*   "resolve", "reject"  the functions of the promise Scene.loadAssets      *)
(*                        returns (a settled promise ignores both);         *)
(*   "sceneProgress"      the arrow function of scene.js:136-140;           *)
(*   "cbLoaded", "cbProgress", "cbError"  functions of a direct caller,     *)
(*                        which record that they were called;               *)
(*   NULL                 no function was passed.                           *)
(* task is the index of the task passed (0: none), done/total the progress  *)
(* fraction (total - remaining) / total, kept as the two integers.          *)

SettleLast(promise, outcome) == outcome

Settle(promise, outcome) == IF promise = "pending" THEN outcome ELSE promise

LoadingPercentRemaining(done, total) == 50 + (((total - done) * 20) \div total)

(* Math.round in the place of Math.floor *)
LoadingPercentRounded(done, total) == 50 + ((done * 40 + total) \div (2 * total))

LoadingPercent(done, total) == 50 + ((done * 20) \div total)

InvokeCb(h, cb, task, done, total) ==
    CASE cb = "resolve" -> [h EXCEPT !.sc.promise = Settle(@, "resolved")]
      [] cb = "reject" -> [h EXCEPT !.sc.promise = Settle(@, "rejected")]
      [] cb = "sceneProgress" ->
            updateLoadingProgress(h, LoadingPercent(done, total), Msg("Loading assets..."))
      [] cb = NULL -> [h EXCEPT !.thrown = TRUE]
      [] OTHER -> [h EXCEPT !.calls = Append(@, [cb |-> cb, task |-> task, done |-> done, total |-> total])]

----------------------------------------------------------------------------
(* assetManager.js *)

NoAssetManager ==
    [constructed |-> FALSE,
     onLoadedCallback |-> NULL, onProgressCallback |-> NULL, onErrorCallback |-> NULL,
     tasks |-> <<>>, waiting |-> 0, total |-> 0, isLoading |-> FALSE,
     addCalls |-> 0, loadCalls |-> 0]

AssetManagerConstructor == [NoAssetManager EXCEPT !.constructed = TRUE]

AMonProgress(h, remainingCount, totalCount) ==
    IF h.am.onProgressCallback # NULL
    THEN InvokeCb(h, h.am.onProgressCallback, 0, totalCount - remainingCount, totalCount)
    ELSE h

AMonFinish(h) ==
    LET h1 == log(h, FALSE) IN
    IF h1.am.onLoadedCallback # NULL
    THEN InvokeCb(h1, h1.am.onLoadedCallback, 0, 0, 0)
    ELSE h1

AMonTaskErrorUnguarded(h, task) ==
    InvokeCb(log(h, TRUE), h.am.onErrorCallback, task, 0, 0)

AMonTaskError(h, task) ==
    LET h1 == log(h, TRUE) IN
    IF h1.am.onErrorCallback # NULL
    THEN InvokeCb(h1, h1.am.onErrorCallback, task, 0, 0)
    ELSE h1

MeshTaskOnError(h, task) ==
    LET h1 == log(h, TRUE) IN
    IF h1.am.onErrorCallback # NULL
    THEN InvokeCb(h1, h1.am.onErrorCallback, task, 0, 0)
    ELSE h1

(* engine: AssetsManager.addMeshTask / addTextureTask / addBinaryFileTask /  *)
(* addCubeTextureTask append a task in state "init"                         *)
EngineAddTask(h, type, hasOnError) ==
    [h EXCEPT !.am.tasks = Append(@, [type |-> type, state |-> "init", onError |-> hasOnError]),
              !.am.addCalls = @ + 1]

addModelTask(h, asset) == EngineAddTask(log(h, FALSE), "model", TRUE)

addTextureTask(h, asset) == EngineAddTask(log(h, FALSE), "texture", FALSE)

addAudioTask(h, asset) == EngineAddTask(log(h, FALSE), "audio", FALSE)

addHDRTask(h, asset) == EngineAddTask(log(h, FALSE), "hdr", FALSE)

addAssetTaskNoHdr(h, asset) ==
    CASE asset.type = "model" -> addModelTask(h, asset)
      [] asset.type = "texture" -> addTextureTask(h, asset)
      [] asset.type = "audio" -> addAudioTask(h, asset)
      [] OTHER -> log(h, TRUE)

addAssetTask(h, asset) ==
    CASE asset.type = "model" -> addModelTask(h, asset)
      [] asset.type = "texture" -> addTextureTask(h, asset)
      [] asset.type = "audio" -> addAudioTask(h, asset)
      [] asset.type = "hdr" -> addHDRTask(h, asset)
      [] OTHER -> log(h, TRUE)

RECURSIVE ForEachAsset(_, _, _)
ForEachAsset(h, assetList, i) ==
    IF i > Len(assetList) THEN h
    ELSE ForEachAsset(addAssetTask(h, assetList[i]), assetList, i + 1)

(* engine: AssetsManager.reset() forgets the tasks *)
EngineReset(h) ==
    [h EXCEPT !.am.tasks = <<>>, !.am.isLoading = FALSE, !.am.addCalls = 0]

(* engine: AssetsManager.load() runs every task; with no task it reports    *)
(* finish at once, without a progress call                                  *)
EngineLoad(h) ==
    LET n == Len(h.am.tasks)
        h1 == [h EXCEPT !.am.loadCalls = @ + 1, !.am.waiting = n, !.am.total = n] IN
    IF h.am.isLoading THEN [h EXCEPT !.am.loadCalls = @ + 1]
    ELSE IF n = 0 THEN AMonFinish(h1)
    ELSE [h1 EXCEPT !.am.isLoading = TRUE,
                    !.am.tasks = [i \in 1..n |-> [@[i] EXCEPT !.state = "running"]]]

AMloadAssets(h, assetList, onLoaded, onProgress, onError) ==
    LET h1 == [h EXCEPT !.am.onLoadedCallback = onLoaded,
                        !.am.onProgressCallback = onProgress,
                        !.am.onErrorCallback = onError]
        h2 == EngineReset(h1)
        h3 == ForEachAsset(h2, assetList, 1)
    IN EngineLoad(h3)

(* engine: one task done (well or not): the count of waiting tasks goes     *)
(* down, progress is reported, and finish is reported with the last task    *)
EngineDecreaseWaiting(h) ==
    LET h1 == [h EXCEPT !.am.waiting = @ - 1]
        h2 == AMonProgress(h1, h1.am.waiting, h1.am.total)
    IN IF h2.am.waiting = 0
       THEN [AMonFinish(h2) EXCEPT !.am.isLoading = FALSE]
       ELSE h2

(* engine: the loader of a mesh task creates the meshes of the file in the  *)
(* scene before the task reports success                                    *)
EngineImportMeshes(h, i) == [h EXCEPT !.sc.meshes = @ \cup LoadedMeshes(i)]

(* meshTask.onSuccess: scene.addMesh for each loaded mesh (the scene holds  *)
(* it already), and the mesh is marked as receiving shadows                 *)
MeshTaskOnSuccess(h, i) ==
    [log(h, FALSE) EXCEPT !.sc.meshes = @ \cup LoadedMeshes(i),
                          !.sc.receiveShadows = @ \cup LoadedMeshes(i)]

(* engine: task i succeeded: its onSuccess, then the count *)
EngineTaskDone(h, i) ==
    LET h1 == [h EXCEPT !.am.tasks[i].state = "done"]
        h2 == IF h1.am.tasks[i].type = "model"
              THEN MeshTaskOnSuccess(EngineImportMeshes(h1, i), i)
              ELSE log(h1, FALSE)
    IN EngineDecreaseWaiting(h2)

(* engine: task i failed: the task's own onError (set on model tasks only), *)
(* then the manager's onTaskError, then the count                           *)
EngineTaskError(h, i) ==
    LET h1 == [h EXCEPT !.am.tasks[i].state = "error"]
        h2 == IF h1.am.tasks[i].onError THEN MeshTaskOnError(h1, i) ELSE h1
        h3 == AMonTaskError(h2, i)
    IN EngineDecreaseWaiting(h3)

----------------------------------------------------------------------------
(* engine: BABYLON.Matrix and BABYLON.Quaternion.  A matrix is its array of  *)
(* 16 numbers; element k of the JavaScript array is El(m, k).  The engine    *)
(* keeps a translation in elements 12, 13, 14.  Angles are counted in        *)
(* quarter turns.  The arithmetic is whole-number arithmetic: where the      *)
(* engine's square root or division leaves the whole numbers the result is   *)
(* NotWhole, of which nothing more is known.                                 *)

Pi == 2

(* the one element of a set of one element: an operator below takes the     *)
(* value of its argument once, as a call of the engine does                 *)
Value(S) == CHOOSE v \in S : TRUE

El(m, k) == m[k + 1]

Identity == <<1, 0, 0, 0,  0, 1, 0, 0,  0, 0, 1, 0,  0, 0, 0, 1>>

Transpose(matrix) ==
    Value({[i \in 1..16 |-> m[4 * ((i - 1) % 4) + ((i - 1) \div 4) + 1]] : m \in {matrix}})

(* a.multiplyToRef(b, result) *)
Multiply(left, right) ==
    Value({[i \in 1..16 |->
              LET r == (i - 1) \div 4
                  c == (i - 1) % 4
              IN El(a, 4 * r) * El(b, c) + El(a, 4 * r + 1) * El(b, 4 + c)
                 + El(a, 4 * r + 2) * El(b, 8 + c) + El(a, 4 * r + 3) * El(b, 12 + c)]
           : a \in {left}, b \in {right}})

Cos(angle) == CASE angle % 4 = 0 -> 1 [] angle % 4 = 2 -> -1 [] OTHER -> 0

Sin(angle) == CASE angle % 4 = 1 -> 1 [] angle % 4 = 3 -> -1 [] OTHER -> 0

RotationY(angle) ==
    <<Cos(angle), 0, -Sin(angle), 0,  0, 1, 0, 0,  Sin(angle), 0, Cos(angle), 0,  0, 0, 0, 1>>

Det3(a, b, c, d, e, f, g, h, i) ==
    a * (e * i - f * h) - b * (d * i - f * g) + c * (d * h - e * g)

Determinant(m) ==
      El(m, 0) * Det3(El(m, 5), El(m, 6), El(m, 7), El(m, 9), El(m, 10), El(m, 11),
                      El(m, 13), El(m, 14), El(m, 15))
    - El(m, 1) * Det3(El(m, 4), El(m, 6), El(m, 7), El(m, 8), El(m, 10), El(m, 11),
                      El(m, 12), El(m, 14), El(m, 15))
    + El(m, 2) * Det3(El(m, 4), El(m, 5), El(m, 7), El(m, 8), El(m, 9), El(m, 11),
                      El(m, 12), El(m, 13), El(m, 15))
    - El(m, 3) * Det3(El(m, 4), El(m, 5), El(m, 6), El(m, 8), El(m, 9), El(m, 10),
                      El(m, 12), El(m, 13), El(m, 14))

IsSquare(n) == \E r \in 0..n : r * r = n

Sqrt(n) == CHOOSE r \in 0..n : r * r = n

Divides(d, n) == d # 0 /\ n % (IF d < 0 THEN -d ELSE d) = 0

Div(n, d) == IF d < 0 THEN (-n) \div (-d) ELSE n \div d

Quaternion(x, y, z, w) == [x |-> x, y |-> y, z |-> z, w |-> w, whole |-> TRUE]

NotWhole == [x |-> 0, y |-> 0, z |-> 0, w |-> 0, whole |-> FALSE]

(* Quaternion.FromRotationMatrixToRef: the branch is chosen by the trace and *)
(* the diagonal; every component is a quotient by s or a multiple of s       *)
QuaternionOf(m11, m12, m13, m21, m22, m23, m31, m32, m33) ==
    LET trace == m11 + m22 + m33
        n == CASE trace > 0 -> trace + 1
               [] m11 > m22 /\ m11 > m33 -> 1 + m11 - m22 - m33
               [] m22 > m33 -> 1 + m22 - m11 - m33
               [] OTHER -> 1 + m33 - m11 - m22
        s == 2 * Sqrt(n)
        whole == /\ n >= 0 /\ IsSquare(n) /\ Divides(4, s)
                 /\ \A v \in {m32 - m23, m13 - m31, m21 - m12,
                              m12 + m21, m13 + m31, m23 + m32} : Divides(s, v)
    IN IF ~whole THEN NotWhole
       ELSE CASE trace > 0 ->
                   Quaternion(Div(m32 - m23, s), Div(m13 - m31, s), Div(m21 - m12, s), s \div 4)
              [] m11 > m22 /\ m11 > m33 ->
                   Quaternion(s \div 4, Div(m12 + m21, s), Div(m13 + m31, s), Div(m32 - m23, s))
              [] m22 > m33 ->
                   Quaternion(Div(m12 + m21, s), s \div 4, Div(m23 + m32, s), Div(m13 - m31, s))
              [] OTHER ->
                   Quaternion(Div(m13 + m31, s), Div(m23 + m32, s), s \div 4, Div(m21 - m12, s))

FromRotationMatrix(matrix) ==
    Value({QuaternionOf(El(m, 0), El(m, 4), El(m, 8), El(m, 1), El(m, 5), El(m, 9),
                        El(m, 2), El(m, 6), El(m, 10)) : m \in {matrix}})

(* Quaternion.toRotationMatrix *)
ToRotationMatrix(quat) ==
    Value({
    <<1 - 2 * (q.y * q.y + q.z * q.z), 2 * (q.x * q.y + q.z * q.w), 2 * (q.z * q.x - q.y * q.w), 0,
      2 * (q.x * q.y - q.z * q.w), 1 - 2 * (q.z * q.z + q.x * q.x), 2 * (q.y * q.z + q.x * q.w), 0,
      2 * (q.z * q.x + q.y * q.w), 2 * (q.y * q.z - q.x * q.w), 1 - 2 * (q.y * q.y + q.x * q.x), 0,
      0, 0, 0, 1>> : q \in {quat}})

(* Math.atan2 and Math.asin where the result is a whole number of quarter turns *)
OnAxis(y, x) == y = 0 \/ x = 0

Atan2(y, x) ==
    CASE y = 0 /\ x >= 0 -> 0
      [] y = 0 /\ x < 0 -> Pi
      [] y > 0 -> 1
      [] OTHER -> -1

Euler(x, y, z) == [x |-> x, y |-> y, z |-> z, whole |-> TRUE]

NoEuler == [x |-> 0, y |-> 0, z |-> 0, whole |-> FALSE]

(* Quaternion.toEulerAngles: the two branches at the poles are taken when    *)
(* qy * qz - qx * qw leaves (-0.4999999, 0.4999999), that is when it is not 0 *)
EulerOf(q) ==
    LET zAxisY == q.y * q.z - q.x * q.w
        zy == 2 * (q.x * q.y + q.z * q.w)
        zx == -(q.z * q.z) - q.x * q.x + q.y * q.y + q.w * q.w
        yy == 2 * (q.z * q.x + q.y * q.w)
        yx == q.z * q.z - q.x * q.x - q.y * q.y + q.w * q.w
    IN IF ~q.whole \/ zAxisY # 0 \/ ~OnAxis(zy, zx) \/ ~OnAxis(yy, yx) THEN NoEuler
       ELSE Euler(0, Atan2(yy, yx), Atan2(zy, zx))

ToEulerAngles(quat) == Value({EulerOf(q) : q \in {quat}})

(* Matrix.decompose(scale, rotation, translation): the translation is read   *)
(* from elements 12, 13, 14; the scale is the length of each row, the second *)
(* negated when the determinant is not positive; the rotation is the         *)
(* quaternion of the rows divided by the scale                               *)
DecomposeOf(m) ==
    LET nx == El(m, 0) * El(m, 0) + El(m, 1) * El(m, 1) + El(m, 2) * El(m, 2)
        ny == El(m, 4) * El(m, 4) + El(m, 5) * El(m, 5) + El(m, 6) * El(m, 6)
        nz == El(m, 8) * El(m, 8) + El(m, 9) * El(m, 9) + El(m, 10) * El(m, 10)
        whole == IsSquare(nx) /\ IsSquare(ny) /\ IsSquare(nz)
        sx == Sqrt(nx)
        sy == IF Determinant(m) <= 0 THEN -Sqrt(ny) ELSE Sqrt(ny)
        sz == Sqrt(nz)
        rows == <<Div(El(m, 0), sx), Div(El(m, 1), sx), Div(El(m, 2), sx), 0,
                  Div(El(m, 4), sy), Div(El(m, 5), sy), Div(El(m, 6), sy), 0,
                  Div(El(m, 8), sz), Div(El(m, 9), sz), Div(El(m, 10), sz), 0,
                  0, 0, 0, 1>>
    IN [position |-> <<El(m, 12), El(m, 13), El(m, 14)>>,
        rotationQuat |->
            IF nx = 0 \/ ny = 0 \/ nz = 0 THEN Quaternion(0, 0, 0, 1)
            ELSE IF whole /\ \A k \in {0, 1, 2} : Divides(sx, El(m, k))
                               /\ Divides(sy, El(m, 4 + k)) /\ Divides(sz, El(m, 8 + k))
                 THEN FromRotationMatrix(rows)
                 ELSE NotWhole]

Decompose(matrix) == Value({DecomposeOf(m) : m \in {matrix}})

----------------------------------------------------------------------------
(* camera.js *)

defaultSpeed == 2

fastSpeed == 20

NoCamera ==
    [created |-> FALSE, kind |-> "none", position |-> <<0, 0, 0>>, rotation |-> NoEuler,
     speed |-> 0, applyGravity |-> FALSE, isShiftPressed |-> FALSE]

(* camera.js:73-93 for a decomposed matrix d and the Euler angles taken *)
PlaceCamera(camera, d, euler) ==
    [camera EXCEPT
        !.position = <<-d.position[1], d.position[2], d.position[3]>>,
        !.rotation = IF euler.whole THEN Euler(euler.x, -euler.y, euler.z) ELSE NoEuler]

(* the decoded rotation taken as it is, without the half turn about Y *)
applyTransformationNoFlip(camera, matrix) ==
    Value({PlaceCamera(camera, d, ToEulerAngles(d.rotationQuat))
           : d \in {Decompose(Transpose(matrix))}})

applyTransformation(camera, matrix) ==
    Value({LET rotationMatrix == ToRotationMatrix(d.rotationQuat)
               convertMatrix == RotationY(Pi)
               finalRotMatrix == Multiply(convertMatrix, rotationMatrix)
               finalQuat == IF d.rotationQuat.whole
                            THEN FromRotationMatrix(finalRotMatrix) ELSE NotWhole
           IN PlaceCamera(camera, d, ToEulerAngles(finalQuat))
           : d \in {Decompose(Transpose(matrix))}})

setupCamera(cameraData) ==
    LET camera == [created |-> TRUE, kind |-> "universal", position |-> <<0, 0, 0>>,
                   rotation |-> Euler(0, 0, 0),
                   speed |-> defaultSpeed, applyGravity |-> cameraData.applyGravity,
                   isShiftPressed |-> FALSE]
    IN IF cameraData.matrix # NoMatrix
       THEN applyTransformation(camera, cameraData.matrix)
       ELSE [camera EXCEPT !.position = <<0, 2, -10>>, !.rotation = Euler(0, 0, 0)]

(* setupCameraEnhancements: the listeners of the window; event.key is       *)
(* "Shift", " " or the key of a letter                                      *)
Keys == {"Shift", " ", "w"}

(* a keyup listener that takes the speed back whatever key was let go *)
onKeyUpAnyKey(camera, key) ==
    [camera EXCEPT !.isShiftPressed = FALSE, !.speed = defaultSpeed]

(* camera.js:107-112 *)
onKeyDownShift(camera, key) ==
    IF key = "Shift"
    THEN [camera EXCEPT !.isShiftPressed = TRUE, !.speed = fastSpeed]
    ELSE camera

(* camera.js:114-119 *)
onKeyUpShift(camera, key) ==
    IF key = "Shift"
    THEN [camera EXCEPT !.isShiftPressed = FALSE, !.speed = defaultSpeed]
    ELSE camera

(* camera.js:122-127 *)
onKeyDownSpace(camera, key) ==
    IF key = " "
    THEN [camera EXCEPT !.applyGravity = ~@]
    ELSE camera

----------------------------------------------------------------------------
(* light.js *)

(* engine: a light as its constructor leaves it: white, intensity 1.0, no    *)
(* shadow generator                                                         *)
EngineLight(kind) ==
    [kind |-> kind, shadows |-> FALSE, renderList |-> {}, diffuse |-> White, specular |-> White, intensity |-> 10,
     position |-> CASE kind = "hemispheric" -> <<>>
                    [] kind = "directional" -> <<0, 1, 0>>
                    [] OTHER -> <<0, 0, 0>>,
     direction |-> CASE kind = "hemispheric" -> <<0, 1, 0>>
                     [] kind = "directional" -> <<0, -1, 0>>
                     [] kind = "spot" -> <<0, 0, -1>>
                     [] OTHER -> <<>>]

(* a decoder that decomposes the array as it is given *)
getPositionFromMatrixNoTranspose(matrix) == Decompose(matrix).position

getPositionFromMatrix(matrix) == Decompose(Transpose(matrix)).position

(* the direction is the forward vector (0, 0, -1) turned by the rotation;    *)
(* the empty tuple stands for a direction that is not made of whole numbers  *)
getPositionAndDirectionFromMatrix(matrix) ==
    Value({[position |-> d.position,
            direction |-> IF d.rotationQuat.whole
                          THEN Value({<<-El(rotationMatrix, 8), -El(rotationMatrix, 9),
                                        -El(rotationMatrix, 10)>>
                                      : rotationMatrix \in {ToRotationMatrix(d.rotationQuat)}})
                          ELSE <<>>]
           : d \in {Decompose(Transpose(matrix))}})

NegX(vector) == Value({IF v = <<>> THEN v ELSE <<-v[1], v[2], v[3]>> : v \in {vector}})

(* "Set light properties": the same lines in each of the three factories *)
SetLightProperties(light, lightData) ==
    LET l1 == IF lightData.color # NoColor
              THEN [light EXCEPT !.diffuse = lightData.color, !.specular = lightData.color]
              ELSE light
    IN IF lightData.intensity # NoIntensity
       THEN [l1 EXCEPT !.intensity = lightData.intensity[1]]
       ELSE l1

createPointLight(lightData) ==
    LET light == EngineLight("point")
        l1 == IF lightData.matrix # NoMatrix
              THEN [light EXCEPT !.position = NegX(getPositionFromMatrix(lightData.matrix))]
              ELSE light
    IN SetLightProperties(l1, lightData)

(* "Apply transformation from matrix" of the spot and the directional light *)
ApplyMatrix(light, lightData) ==
    IF lightData.matrix # NoMatrix
    THEN Value({[light EXCEPT !.position = NegX(pd.position), !.direction = NegX(pd.direction)]
                : pd \in {getPositionAndDirectionFromMatrix(lightData.matrix)}})
    ELSE light

createSpotLight(lightData) ==
    SetLightProperties(ApplyMatrix(EngineLight("spot"), lightData), lightData)

NotSkyBox(mesh) == ~includes(mesh, "skyBox")

(* a directional light that takes every mesh of the scene as a shadow caster *)
createDirectionalLightAllMeshes(scene, lightData) ==
    [SetLightProperties(ApplyMatrix(EngineLight("directional"), lightData), lightData)
        EXCEPT !.shadows = lightData.castShadows,
               !.renderList = IF lightData.castShadows THEN scene.meshes ELSE {}]

(* light.js:147-162: the render list of the shadow map takes each mesh of    *)
(* scene.meshes whose name does not include "skyBox"                         *)
createDirectionalLight(scene, lightData) ==
    [SetLightProperties(ApplyMatrix(EngineLight("directional"), lightData), lightData)
        EXCEPT !.shadows = lightData.castShadows,
               !.renderList = IF lightData.castShadows
                              THEN {mesh \in scene.meshes : NotSkyBox(mesh)}
                              ELSE {}]

(* the default branch of setupLights: the light is returned as constructed *)
HemisphericLight == EngineLight("hemispheric")

NoLight == EngineLight("none")

LightForNoSun(scene, lightData) ==
    CASE lightData.type = "POINT" -> createPointLight(lightData)
      [] lightData.type = "SPOT" -> createSpotLight(lightData)
      [] lightData.type = "DIRECTIONAL" -> createDirectionalLight(scene, lightData)
      [] OTHER -> HemisphericLight

LightFor(scene, lightData) ==
    CASE lightData.type = "POINT" -> createPointLight(lightData)
      [] lightData.type = "SPOT" -> createSpotLight(lightData)
      [] lightData.type \in {"SUN", "DIRECTIONAL"} -> createDirectionalLight(scene, lightData)
      [] OTHER -> HemisphericLight

(* the light made joins scene.lights; the meshes its shadow generator took  *)
(* were marked as receiving shadows (light.js:155)                          *)
setupLights(h, lightData) ==
    LET light == LightFor(h.sc, lightData)
    IN [h EXCEPT !.sc.lights = Append(@, light),
                 !.sc.receiveShadows = @ \cup light.renderList]

----------------------------------------------------------------------------
(* scene.js *)

SceneConstructor ==
    [phases |-> <<>>, promise |-> "none", lights |-> <<>>, loadAssetsCalls |-> 0,
     activeCamera |-> NoCamera, meshes |-> {}, receiveShadows |-> {}]

(* Scene.setupCamera: the first camera of the manifest, or an orbiting       *)
(* default camera, whose position (from alpha, beta and the radius) is not   *)
(* made of whole numbers                                                     *)
SceneSetupCamera(h, sceneData) ==
    [h EXCEPT !.sc.activeCamera =
        IF sceneData.camera.present
        THEN setupCamera(sceneData.camera)
        ELSE [NoCamera EXCEPT !.created = TRUE, !.kind = "arcRotate", !.position = <<>>,
                              !.speed = 2]]

StartPhase(h, phase) == [h EXCEPT !.sc.phases = Append(@, phase)]

GlbAssets(sceneData) == [i \in 1..sceneData.glb |-> [type |-> "model"]]

(* a loadAssets that starts no batch for an empty list and leaves its       *)
(* promise pending                                                          *)
SceneLoadAssetsSkipsEmpty(h, sceneData) ==
    LET h1 == [h EXCEPT !.sc.loadAssetsCalls = @ + 1, !.sc.promise = "pending"]
    IN IF sceneData.glb = 0 THEN h1
       ELSE AMloadAssets(h1, GlbAssets(sceneData), "resolve", "sceneProgress", "reject")

SceneLoadAssets(h, sceneData) ==
    LET h1 == [h EXCEPT !.sc.loadAssetsCalls = @ + 1, !.sc.promise = "pending"]
    IN AMloadAssets(h1, GlbAssets(sceneData), "resolve", "sceneProgress", "reject")

(* sceneData.scene_lights.forEach: reading lightData.name of a null entry   *)
(* throws, and the entries after it are not reached                         *)
RECURSIVE ForEachLight(_, _, _)
ForEachLight(h, lights, i) ==
    IF i > Len(lights) THEN [h |-> h, threw |-> FALSE]
    ELSE IF lights[i].isNull THEN [h |-> h, threw |-> TRUE]
    ELSE ForEachLight(setupLights(h, lights[i]), lights, i + 1)

(* scene.js:155-173: a hemispheric light of intensity 0.7 and a directional  *)
(* light of intensity 0.5 with a shadow generator                           *)
DefaultLights ==
    <<[EngineLight("hemispheric") EXCEPT !.intensity = 7],
      [EngineLight("directional") EXCEPT !.intensity = 5, !.shadows = TRUE,
                                         !.direction = <<-1, -2, -1>>, !.position = <<1, 2, 1>>]>>

(* a setupLights that makes the default lights whatever the manifest holds *)
SceneSetupLightsKeepsDefaults(h, sceneData) ==
    ForEachLight([h EXCEPT !.sc.lights = @ \o DefaultLights], sceneData.lights, 1)

(* scene.js:171-182: addShadowCaster for each mesh of scene.meshes whose    *)
(* name does not include "skyBox"                                           *)
SceneSetupLights(h, sceneData) ==
    IF Len(sceneData.lights) > 0
    THEN ForEachLight(h, sceneData.lights, 1)
    ELSE LET casters == {mesh \in h.sc.meshes : NotSkyBox(mesh)}
         IN [h |-> [h EXCEPT !.sc.lights = @ \o <<DefaultLights[1],
                                                   [DefaultLights[2] EXCEPT !.renderList = casters]>>,
                             !.sc.receiveShadows = @ \cup casters],
             threw |-> FALSE]

----------------------------------------------------------------------------
(* app.js: SimpleBEXApp *)

NoProject == [isNull |-> TRUE, v |-> NoValue]

AppConstructor ==
    [pc |-> "new", projectData |-> NoProject, engine |-> FALSE, scene |-> FALSE,
     debugMode |-> FALSE, initCalls |-> 0, renderLoops |-> 0, fetched |-> NoResponse,
     timer |-> "none", server |-> NoResponse, resizeCalls |-> 0, engineResizes |-> 0]

NoUnit ==
    [mode |-> "idle", utilCalls |-> 0, fn |-> "none", resp |-> NoResponse,
     res |-> Settled(FALSE, TRUE, NoValue, NoText, 0), assetList |-> <<>>, batches |-> 0,
     lightCalls |-> <<>>, matrix |-> NoMatrix,
     cameras |-> [negX \in BOOLEAN |-> NoCamera], lightsAt |-> [negX \in BOOLEAN |-> NoLight]]

ManifestTexts == {JsonText(m) : m \in Manifests} \cup {NullText, GarbageText}

(* a catch that takes the loading screen away with the error on it *)
CatchHidesScreen(h, text) ==
    [updateLoadingProgress(log(h, TRUE), 0, ErrorMsg(text)) EXCEPT !.ui.display = "none"]

(* the catch of initialize (app.js:75-78) *)
Catch(h, text) == updateLoadingProgress(log(h, TRUE), 0, ErrorMsg(text))

(* constructor -> initialize, up to the await of loadJSON (app.js:20, 26-32) *)
AppInitialize ==
    /\ app.pc = "new"
    /\ app' = [app EXCEPT !.pc = "awaitManifest", !.initCalls = @ + 1]
    /\ Commit(updateLoadingProgress(Heap, 10, Msg("Loading project configuration...")))
    /\ UNCHANGED unit

(* loadJSON settles; initialize goes on to the creation of the engine       *)
(* (app.js:32-44)                                                           *)
ManifestLoaded ==
    /\ app.pc = "awaitManifest"
    /\ LET resp == app.server
           r == loadJSON(resp)
           h1 == [Heap EXCEPT !.cons = @ + r.errors]
       IN IF r.rejected
          THEN /\ app' = [app EXCEPT !.pc = "failed", !.fetched = resp]
               /\ Commit(Catch(h1, "HTTP error"))
          ELSE IF r.isNull
          THEN /\ app' = [app EXCEPT !.pc = "failed", !.fetched = resp,
                                     !.projectData = [isNull |-> TRUE, v |-> NoValue]]
               /\ Commit(Catch(h1, "Failed to load project configuration"))
          ELSE /\ app' = [app EXCEPT !.pc = "engine", !.fetched = resp,
                                     !.projectData = [isNull |-> FALSE, v |-> r.json],
                                     !.debugMode = r.json.debug]
               /\ Commit(updateLoadingProgress(h1, 20, Msg("Creating engine...")))
    /\ UNCHANGED unit

(* new BABYLON.Engine, which throws where WebGL is missing, then new Scene  *)
(* (app.js:47-52)                                                           *)
CreateEngine(webgl) ==
    /\ app.pc = "engine"
    /\ IF webgl
       THEN /\ app' = [app EXCEPT !.pc = "environment", !.engine = TRUE, !.scene = TRUE]
            /\ Commit([updateLoadingProgress(Heap, 30, Msg("Creating scene..."))
                         EXCEPT !.sc = SceneConstructor])
       ELSE /\ app' = [app EXCEPT !.pc = "failed"]
            /\ Commit(Catch(Heap, "WebGL not supported"))
    /\ UNCHANGED unit

(* scene.js:67-77: MeshBuilder.CreateBox("skyBox", ...) puts the box into   *)
(* scene.meshes                                                             *)
createEnvironment(h, sceneData) ==
    IF sceneData.skybox THEN [h EXCEPT !.sc.meshes = @ \cup {SkyBox}] ELSE h

(* Scene.initialize: createEnvironment reads projectData.manifest.scenes[0]  *)
(* and throws when there is none; then the AssetManager (scene.js:25-31)    *)
SceneEnvironment ==
    /\ app.pc = "environment"
    /\ LET h1 == StartPhase(log(Heap, FALSE), "environment") IN
       IF app.projectData.v.hasScene
       THEN /\ app' = [app EXCEPT !.pc = "camera"]
            /\ Commit([createEnvironment(h1, app.projectData.v)
                          EXCEPT !.am = AssetManagerConstructor])
       ELSE /\ app' = [app EXCEPT !.pc = "failed"]
            /\ Commit(Catch(h1, "Cannot read properties of undefined"))
    /\ UNCHANGED unit

(* a camera phase that keeps the converted transform in the manifest *)
SceneCameraStoresConverted ==
    /\ app.pc = "camera"
    /\ app' = [app EXCEPT !.pc = "assets",
                          !.projectData.v.camera.matrix =
                              IF @ = NoMatrix THEN @ ELSE Transpose(@)]
    /\ Commit(SceneSetupCamera(
                StartPhase(updateLoadingProgress(Heap, 40, Msg("Setting up camera...")), "camera"),
                app.projectData.v))
    /\ UNCHANGED unit

(* scene.js:34-35 *)
SceneCamera ==
    /\ app.pc = "camera"
    /\ app' = [app EXCEPT !.pc = "assets"]
    /\ Commit(SceneSetupCamera(
                StartPhase(updateLoadingProgress(Heap, 40, Msg("Setting up camera...")), "camera"),
                app.projectData.v))
    /\ UNCHANGED unit

(* scene.js:38-39, up to the await *)
SceneAssets ==
    /\ app.pc = "assets"
    /\ app' = [app EXCEPT !.pc = "awaitAssets"]
    /\ Commit(SceneLoadAssets(
                StartPhase(updateLoadingProgress(Heap, 50, Msg("Loading assets...")), "assets"),
                app.projectData.v))
    /\ UNCHANGED unit

(* the continuation of the await of scene.js:39 when the promise is in one  *)
(* of the states `awaited`: the lights phase (scene.js:42-43)               *)
LightsPhase(awaited) ==
    /\ app.pc = "awaitAssets"
    /\ sc.promise \in awaited
    /\ LET h1 == StartPhase(updateLoadingProgress(Heap, 70, Msg("Setting up lights...")), "lights")
           r == SceneSetupLights(h1, app.projectData.v)
       IN IF r.threw
          THEN /\ app' = [app EXCEPT !.pc = "failed"]
               /\ Commit(Catch(r.h, "Cannot read properties of null"))
          ELSE /\ app' = [app EXCEPT !.pc = "interaction"]
               /\ Commit(r.h)
    /\ UNCHANGED unit

AssetsRejectedSwallowed == LightsPhase({"rejected"})

AssetsRejectedRetry ==
    /\ app.pc = "awaitAssets"
    /\ sc.promise = "rejected"
    /\ app' = [app EXCEPT !.pc = "assets"]
    /\ UNCHANGED <<ui, cons, sc, am, calls, thrown, unit>>

(* the await of scene.js:39 throws what reject was called with, the task,   *)
(* which has no message; nothing in Scene.initialize catches it, and the    *)
(* catch of app.js:75 does                                                  *)
AssetsRejected ==
    /\ app.pc = "awaitAssets"
    /\ sc.promise = "rejected"
    /\ app' = [app EXCEPT !.pc = "failed"]
    /\ Commit(Catch(Heap, "undefined"))
    /\ UNCHANGED unit

SceneLightsNoAwait == LightsPhase({"pending", "resolved"})

SceneLights == LightsPhase({"resolved"})

(* scene.js:46-49 *)
SceneInteraction ==
    /\ app.pc = "interaction"
    /\ app' = [app EXCEPT !.pc = "render"]
    /\ Commit(StartPhase(updateLoadingProgress(Heap, 80, Msg("Setting up interactions...")),
                         "interaction"))
    /\ UNCHANGED unit

(* app.js:57-73 and run (app.js:106-119): the render loop is started, 100 is *)
(* reported and the first timer is set                                      *)
AppRun ==
    /\ app.pc = "render"
    /\ app' = [app EXCEPT !.pc = "ready", !.renderLoops = @ + 1, !.timer = "fade"]
    /\ Commit(updateLoadingProgress(
                updateLoadingProgress(Heap, 90, Msg("Starting render loop...")),
                100, Msg("Ready!")))
    /\ UNCHANGED unit

(* the timer of 500 ms: the loading screen fades, and the timer of 1000 ms  *)
(* is set (app.js:65-72)                                                    *)
FadeOut ==
    /\ app.timer = "fade"
    /\ app' = [app EXCEPT !.timer = "hide"]
    /\ ui' = [ui EXCEPT !.opacity = "0"]
    /\ UNCHANGED <<cons, sc, am, calls, thrown, unit>>

(* the timer of 1000 ms: the loading screen is taken away (app.js:70-72) *)
Hide ==
    /\ app.timer = "hide"
    /\ app' = [app EXCEPT !.timer = "done"]
    /\ ui' = [ui EXCEPT !.display = "none"]
    /\ UNCHANGED <<cons, sc, am, calls, thrown, unit>>

----------------------------------------------------------------------------
(* Engine callbacks: macrotasks, which wait for the pending continuation    *)

MicrotaskReady == app.pc = "awaitAssets" /\ sc.promise # "pending"

Running(i) == am.isLoading /\ i \in DOMAIN am.tasks /\ am.tasks[i].state = "running"

TaskSucceeds(i) ==
    /\ Running(i)
    /\ ~MicrotaskReady
    /\ Commit(EngineTaskDone(Heap, i))
    /\ UNCHANGED <<app, unit>>

TaskFails(i) ==
    /\ Running(i)
    /\ ~MicrotaskReady
    /\ Commit(EngineTaskError(Heap, i))
    /\ UNCHANGED <<app, unit>>

----------------------------------------------------------------------------
(* The application *)

(* app.server is no field of the instance: it is the answer that waits at   *)
(* the server for the fetch of projectFile                                  *)
InitWith(texts) ==
    /\ \E resp \in Responses(texts) : app = [AppConstructor EXCEPT !.server = resp]
    /\ ui = LoadingScreen
    /\ cons = 0
    /\ sc = SceneConstructor
    /\ am = NoAssetManager
    /\ calls = <<>>
    /\ thrown = FALSE
    /\ unit = NoUnit

Init == InitWith(ManifestTexts)

Next ==
    \/ AppInitialize
    \/ ManifestLoaded
    \/ \E webgl \in BOOLEAN : CreateEngine(webgl)
    \/ SceneEnvironment
    \/ SceneCamera
    \/ SceneAssets
    \/ AssetsRejected
    \/ SceneLights
    \/ SceneInteraction
    \/ AppRun
    \/ FadeOut
    \/ Hide
    \/ \E i \in 1..MaxAssets + 1 : TaskSucceeds(i)
    \/ \E i \in 1..MaxAssets + 1 : TaskFails(i)

Spec == Init /\ [][Next]_vars

----------------------------------------------------------------------------
(* The run with the events of the window: main.js lets resize reach the app *)
(* once the constructor has returned, which is after initialize has come to *)
(* its first await.  app.resizeCalls counts the calls of resize,            *)
(* app.engineResizes the calls of engine.resize.                            *)

(* a resize that calls the engine without looking for it *)
resizeUnchecked(a) ==
    IF a.engine
    THEN [app |-> [a EXCEPT !.engineResizes = @ + 1], threw |-> FALSE]
    ELSE [app |-> a, threw |-> TRUE]

(* app.js:124-128 *)
resize(a) ==
    IF a.engine
    THEN [app |-> [a EXCEPT !.engineResizes = @ + 1], threw |-> FALSE]
    ELSE [app |-> a, threw |-> FALSE]

WindowResize ==
    /\ app.pc # "new"
    /\ app.resizeCalls < MaxCalls
    /\ LET r == resize(app) IN
       /\ app' = [r.app EXCEPT !.resizeCalls = @ + 1]
       /\ thrown' = (thrown \/ r.threw)
    /\ UNCHANGED <<ui, cons, sc, am, calls, unit>>

(* a key goes down, or up, once the listeners of setupCameraEnhancements    *)
(* are there: the two keydown listeners run in the order they were added    *)
KeyDown(key) ==
    /\ sc.activeCamera.kind = "universal"
    /\ sc' = [sc EXCEPT !.activeCamera = onKeyDownSpace(onKeyDownShift(@, key), key)]
    /\ ui' = [ui EXCEPT !.lastEvent = [type |-> "keydown", key |-> key],
                        !.lastShift = IF key = "Shift" THEN "down" ELSE @,
                        !.spaceOdd = IF key = " " THEN ~@ ELSE @]
    /\ UNCHANGED <<app, cons, am, calls, thrown, unit>>

KeyUp(key) ==
    /\ sc.activeCamera.kind = "universal"
    /\ sc' = [sc EXCEPT !.activeCamera = onKeyUpShift(@, key)]
    /\ ui' = [ui EXCEPT !.lastEvent = [type |-> "keyup", key |-> key],
                        !.lastShift = IF key = "Shift" THEN "up" ELSE @]
    /\ UNCHANGED <<app, cons, am, calls, thrown, unit>>

(* a listener list that takes the same listener again *)
addEventListenerAgain(listeners, listener) == Append(listeners, listener)

(* browser: addEventListener leaves the list as it is where it holds the    *)
(* listener already                                                         *)
addEventListener(listeners, listener) ==
    IF \E k \in DOMAIN listeners : listeners[k] = listener
    THEN listeners
    ELSE Append(listeners, listener)

(* browser: removeEventListener takes the listener out where the list holds *)
(* it                                                                       *)
RECURSIVE removeEventListener(_, _)
removeEventListener(listeners, listener) ==
    IF listeners = <<>> THEN <<>>
    ELSE IF Head(listeners) = listener THEN Tail(listeners)
    ELSE <<Head(listeners)>> \o removeEventListener(Tail(listeners), listener)

(* camera.js:141-151 *)
lockChangeHandler(page) ==
    IF page.pointerLockElement = "canvas"
    THEN [page EXCEPT !.mousemove = addEventListener(@, "updateCameraRotation")]
    ELSE [page EXCEPT !.mousemove = removeEventListener(@, "updateCameraRotation")]

(* camera.js:130-138: a click on the canvas asks for the pointer lock *)
CanvasClick ==
    /\ sc.activeCamera.kind = "universal"
    /\ ~ui.lockRequested
    /\ ui.pointerLockElement # "canvas"
    /\ ui' = [ui EXCEPT !.lockRequested = TRUE]
    /\ UNCHANGED <<app, cons, sc, am, calls, thrown, unit>>

(* browser: the lock is given to the canvas that asked for it, or taken     *)
(* away (Escape); the document is told by one or more change events         *)
PointerLockChanges(n) ==
    /\ ui.lockRequested \/ ui.pointerLockElement = "canvas"
    /\ ui.lockEvents + n <= MaxCalls
    /\ ui' = [ui EXCEPT !.pointerLockElement = IF @ = "canvas" THEN NULL ELSE "canvas",
                        !.lockRequested = FALSE,
                        !.lockEvents = @ + n]
    /\ UNCHANGED <<app, cons, sc, am, calls, thrown, unit>>

(* pointerlockchange, mozpointerlockchange or webkitpointerlockchange        *)
(* reaches lockChangeHandler (camera.js:162-164)                            *)
PointerLockChangeEvent ==
    /\ ui.lockEvents > 0
    /\ ui' = [lockChangeHandler(ui) EXCEPT !.lockEvents = @ - 1]
    /\ UNCHANGED <<app, cons, sc, am, calls, thrown, unit>>

(* a mouse move reaches every mousemove listener of the document:           *)
(* updateCameraRotation (camera.js:154-159) turns the camera once per call  *)
MouseMove ==
    /\ sc.activeCamera.kind = "universal"
    /\ ui' = [ui EXCEPT !.lastMove = Len(ui.mousemove)]
    /\ UNCHANGED <<app, cons, sc, am, calls, thrown, unit>>

(* the manifests of the runs with events: no scene_lights, one glb file at  *)
(* most, a camera entry with or without applyGravity                        *)
EventManifests ==
    [hasScene : BOOLEAN, debug : BOOLEAN, glb : {0, 1}, lights : {<<>>},
     camera : {NoCameraData, CameraData, GravityCameraData}, skybox : {FALSE}]

EventTexts == {JsonText(m) : m \in EventManifests} \cup {NullText, GarbageText}

EventInit == InitWith(EventTexts)

EventNext ==
    \/ Next
    \/ WindowResize
    \/ \E key \in Keys : KeyDown(key)
    \/ \E key \in Keys : KeyUp(key)
    \/ CanvasClick
    \/ \E n \in 1..2 : PointerLockChanges(n)
    \/ PointerLockChangeEvent
    \/ MouseMove

EventSpec == EventInit /\ [][EventNext]_vars

(* The manifests of the runs with fairness have no more than one light: the *)
(* lights phase has no await, and the batches are those of every glb_groups *)
LiveTexts ==
    {JsonText(m) : m \in {n \in Manifests : Len(n.lights) <= 1}} \cup {NullText, GarbageText}

LiveInit == InitWith(LiveTexts)

(* The same run where the browser goes on: the fetch of the manifest ends,   *)
(* every task of a started batch ends, a timer fires, and a continuation or  *)
(* a callback that is ready is run                                           *)
LiveSpec == LiveInit /\ [][Next]_vars /\ WF_vars(Next)

----------------------------------------------------------------------------
(* The exported functions called directly: one of loadJSON / loadTextFile,   *)
(* setupLights, AssetManager.loadAssets per run, on a fresh scene and a      *)
(* fresh AssetManager.  The caller clears its own records and the console    *)
(* before it starts a batch, and loads the list again when the batch is over.    *)

UnitTexts == {JsonText(DefaultProject), NullText, GarbageText}

UnitLoadJSON(resp) ==
    /\ unit.mode \in {"idle", "util"}
    /\ unit.utilCalls < MaxCalls
    /\ LET r == loadJSON(resp) IN
       /\ unit' = [unit EXCEPT !.mode = "util", !.utilCalls = @ + 1, !.fn = "loadJSON",
                               !.resp = resp, !.res = r]
       /\ cons' = cons + r.errors
       /\ thrown' = (thrown \/ r.rejected)
    /\ UNCHANGED <<app, ui, sc, am, calls>>

UnitLoadTextFile(resp) ==
    /\ unit.mode \in {"idle", "util"}
    /\ unit.utilCalls < MaxCalls
    /\ LET r == loadTextFile(resp) IN
       /\ unit' = [unit EXCEPT !.mode = "util", !.utilCalls = @ + 1, !.fn = "loadTextFile",
                               !.resp = resp, !.res = r]
       /\ cons' = cons + r.errors
       /\ thrown' = (thrown \/ r.rejected)
    /\ UNCHANGED <<app, ui, sc, am, calls>>

UnitSetupLights(lightData) ==
    /\ unit.mode \in {"idle", "lights"}
    /\ Len(unit.lightCalls) < MaxLights
    /\ unit' = [unit EXCEPT !.mode = "lights", !.lightCalls = Append(@, lightData)]
    /\ Commit(setupLights(Heap, lightData))
    /\ UNCHANGED app

(* the same transform with its X translation (element 12) negated *)
NegateX(matrix) == IF matrix = NoMatrix THEN matrix ELSE [matrix EXCEPT ![13] = -@]

(* setupCamera, and setupLights, on one transform as it is and on the same   *)
(* transform with its X translation negated                                  *)
UnitSetupCamera ==
    /\ unit.mode \in {"idle", "decode"}
    /\ ~unit.cameras[FALSE].created
    /\ \E m \in (IF unit.mode = "idle" THEN Matrices \cup {NoMatrix} ELSE {unit.matrix}) :
         unit' = [unit EXCEPT !.mode = "decode", !.matrix = m,
                              !.cameras = [negX \in BOOLEAN |->
                                  setupCamera([matrix |-> IF negX THEN NegateX(m) ELSE m,
                                               applyGravity |-> FALSE])]]
    /\ UNCHANGED <<app, ui, cons, sc, am, calls, thrown>>

UnitSetupLightAt(type) ==
    /\ unit.mode \in {"idle", "decode"}
    /\ unit.lightsAt[FALSE].kind = "none"
    /\ \E m \in (IF unit.mode = "idle" THEN Matrices \cup {NoMatrix} ELSE {unit.matrix}) :
         unit' = [unit EXCEPT !.mode = "decode", !.matrix = m,
                              !.lightsAt = [negX \in BOOLEAN |->
                                  LightFor(sc, LightAt(type, IF negX THEN NegateX(m) ELSE m))]]
    /\ UNCHANGED <<app, ui, cons, sc, am, calls, thrown>>

UnitLoadAssets ==
    /\ unit.mode = "idle"
    /\ \E assetList \in AssetLists, onLoaded \in Callbacks("cbLoaded"),
          onProgress \in Callbacks("cbProgress"), onError \in Callbacks("cbError") :
        /\ unit' = [unit EXCEPT !.mode = "assets", !.assetList = assetList, !.batches = 1]
        /\ Commit(AMloadAssets([Heap EXCEPT !.calls = <<>>, !.cons = 0],
                               assetList, onLoaded, onProgress, onError))
    /\ UNCHANGED app

(* the same list again, with the same callbacks, once the batch is over *)
UnitLoadAgain ==
    /\ unit.mode = "assets"
    /\ ~am.isLoading
    /\ unit.batches < MaxBatches
    /\ unit' = [unit EXCEPT !.batches = @ + 1]
    /\ Commit(AMloadAssets([Heap EXCEPT !.calls = <<>>, !.cons = 0], unit.assetList,
                           am.onLoadedCallback, am.onProgressCallback, am.onErrorCallback))
    /\ UNCHANGED app

UnitInit ==
    /\ app = AppConstructor
    /\ ui = LoadingScreen
    /\ cons = 0
    /\ sc = SceneConstructor
    /\ am = AssetManagerConstructor
    /\ calls = <<>>
    /\ thrown = FALSE
    /\ unit = NoUnit

UnitNext ==
    \/ \E resp \in Responses(UnitTexts) : UnitLoadJSON(resp)
    \/ \E resp \in Responses(UnitTexts) : UnitLoadTextFile(resp)
    \/ \E lightData \in LightInputs : UnitSetupLights(lightData)
    \/ UnitSetupCamera
    \/ \E type \in {"POINT", "SPOT", "SUN"} : UnitSetupLightAt(type)
    \/ UnitLoadAssets
    \/ UnitLoadAgain
    \/ \E i \in 1..MaxAssets + 1 : TaskSucceeds(i)
    \/ \E i \in 1..MaxAssets + 1 : TaskFails(i)

UnitSpec == UnitInit /\ [][UnitNext]_vars

----------------------------------------------------------------------------
(* Properties *)

PhaseOrder == <<"environment", "camera", "assets", "lights", "interaction">>

IsPrefix(s, t) == Len(s) <= Len(t) /\ \A i \in 1..Len(s) : s[i] = t[i]

Reported(percent) == \E i \in 1..Len(ui.log) : ui.log[i] = percent

LastReported == ui.log[Len(ui.log)]

SomeTaskFailed == \E i \in DOMAIN am.tasks : am.tasks[i].state = "error"

SupportedTypes == {"model", "texture", "audio", "hdr"}

Supported(assetList) == Cardinality({i \in DOMAIN assetList : assetList[i].type \in SupportedTypes})

FetchFails(resp) == ~resp.net \/ ~resp.ok \/ ~resp.readable

(* C1, as stated: when initialize has completed successfully, the percents   *)
(* passed to updateLoadingProgress are strictly increasing and end at 100.   *)
C1_StrictlyIncreasing ==
    app.pc = "ready" =>
        /\ \A i \in 1..(Len(ui.log) - 1) : ui.log[i] < ui.log[i + 1]
        /\ LastReported = 100

(* C1, amended: when initialize has completed successfully, the percents     *)
(* passed to updateLoadingProgress never decrease and end at 100; they are   *)
(* strictly increasing when the batch had no asset task.                     *)
C1_NonDecreasing ==
    app.pc = "ready" =>
        /\ \A i \in 1..(Len(ui.log) - 1) : ui.log[i] <= ui.log[i + 1]
        /\ LastReported = 100
        /\ am.total = 0 => \A i \in 1..(Len(ui.log) - 1) : ui.log[i] < ui.log[i + 1]

C1_Witness == app.pc = "ready" /\ am.total >= 2 /\ Len(ui.log) >= 11

(* C2: the phases of Scene.initialize start in the order environment,        *)
(* camera, asset load, lights, interaction, each at most once and none       *)
(* skipped, and lights and interaction start only once the asset-load        *)
(* promise has resolved.                                                     *)
C2_PhaseOrder ==
    /\ IsPrefix(sc.phases, PhaseOrder)
    /\ Len(sc.phases) >= 4 => sc.promise = "resolved"

C2_Witness == sc.phases = PhaseOrder /\ am.total >= 1

(* C3: a failing phase of Scene.initialize (a throw, or the asset-load       *)
(* promise rejected) reaches the catch of SimpleBEXApp.initialize: no later  *)
(* phase starts, the render loop is not started, 90 and 100 are not          *)
(* reported, and percent 0 is reported with a message beginning "Error: ".   *)
C3_Inv ==
    /\ sc.promise = "rejected" =>
          /\ app.pc \in {"awaitAssets", "failed"}
          /\ sc.phases = SubSeq(PhaseOrder, 1, 3)
    /\ (app.pc = "failed" /\ sc.phases # <<>>) =>
          /\ app.renderLoops = 0
          /\ ~Reported(90)
          /\ ~Reported(100)
          /\ Reported(0)

C3_Act ==
    /\ app.pc = "failed" => (app'.pc = "failed" /\ sc'.phases = sc.phases)
    /\ (sc.promise = "rejected" /\ app.pc = "awaitAssets") => app'.pc = "failed"
    /\ (app.pc # "failed" /\ app'.pc = "failed") =>
          /\ ui'.percent = 0
          /\ ui'.message.prefix = "Error: "
          /\ ui'.log[Len(ui'.log)] = 0

C3_FailureReachesCatch == []C3_Inv /\ [][C3_Act]_vars

C3_Witness == app.pc = "failed" /\ sc.promise = "rejected" /\ ~am.isLoading /\ am.total >= 2

(* C4: when the manifest fetch answers with a non-OK status, loadJSON gives  *)
(* null and initialize reports percent 0 with "Error: Failed to load project *)
(* configuration", no exception escapes, engine and scene stay null and the  *)
(* render loop is not started.                                               *)
C4_ManifestNotOk ==
    (app.fetched.net /\ ~app.fetched.ok) =>
        /\ app.projectData.isNull
        /\ app.pc = "failed"
        /\ ui.log = <<10, 0>>
        /\ ui.percent = 0
        /\ ui.message = ErrorMsg("Failed to load project configuration")
        /\ ~thrown
        /\ ~app.engine
        /\ ~app.scene
        /\ app.renderLoops = 0

C4_Witness == app.fetched.net /\ ~app.fetched.ok /\ app.pc = "failed" /\ cons = 2

(* C5: loadJSON and loadTextFile never reject: on a network error, a non-OK  *)
(* status, a body read failure and (loadJSON) a body that is not JSON the    *)
(* promise resolves to null and exactly one error is logged; on success it   *)
(* resolves to the parsed value (loadJSON) or the text (loadTextFile) and no *)
(* error is logged.                                                          *)
C5_Act ==
    unit'.utilCalls = unit.utilCalls + 1 =>
        LET r == unit'.res
            q == unit'.resp
            bad == FetchFails(q) \/ (unit'.fn = "loadJSON" /\ q.text.t # "json")
        IN /\ ~r.rejected
           /\ ~thrown'
           /\ bad => (r.isNull /\ cons' = cons + 1)
           /\ ~bad => /\ cons' = cons
                      /\ IF unit'.fn = "loadJSON"
                         THEN r.json = q.text.v /\ r.isNull = q.text.isNull
                         ELSE r.text = q.text /\ ~r.isNull

C5_NeverRejects == [][C5_Act]_vars

C5_Witness ==
    /\ unit.fn = "loadTextFile"
    /\ unit.resp.ok /\ ~unit.resp.readable
    /\ unit.res.isNull
    /\ cons = 2

(* C6: AssetManager.loadAssets registers one task per entry of type model,   *)
(* texture, audio or hdr; an entry of another type registers none, logs one  *)
(* error and throws nothing; and load is called once.                        *)
C6_Act ==
    unit'.batches = unit.batches + 1 =>
        /\ am'.addCalls = Supported(unit'.assetList)
        /\ Len(am'.tasks) = Supported(unit'.assetList)
        /\ \A i \in DOMAIN am'.tasks : am'.tasks[i].type \in SupportedTypes
        /\ cons' = Len(unit'.assetList) - Supported(unit'.assetList)
        /\ ~thrown'
        /\ am'.loadCalls = am.loadCalls + 1

C6_AssetDispatch == [][C6_Act]_vars

C6_Witness ==
    /\ unit.batches = 2
    /\ Len(unit.assetList) = 3
    /\ unit.assetList[1].type = "model"
    /\ unit.assetList[2].type = "bogus"
    /\ unit.assetList[3].type = "hdr"
    /\ am.addCalls = 2
    /\ am.isLoading

(* C7: the promise of Scene.loadAssets is settled at most once: with a       *)
(* failing task it is rejected at the first failure and never resolved       *)
(* afterwards; without one it is resolved when the batch is finished.        *)
C7_Inv ==
    /\ SomeTaskFailed <=> sc.promise = "rejected"
    /\ sc.promise = "resolved" =>
          (~am.isLoading /\ \A i \in DOMAIN am.tasks : am.tasks[i].state = "done")
    /\ sc.promise = "pending" => am.isLoading

C7_Act == sc.promise \in {"resolved", "rejected"} => sc'.promise = sc.promise

C7_SettledOnce == []C7_Inv /\ [][C7_Act]_vars

C7_Witness ==
    /\ sc.promise = "rejected"
    /\ ~am.isLoading
    /\ \E i, j \in DOMAIN am.tasks : am.tasks[i].state = "error" /\ am.tasks[j].state = "done"

(* C8: a failing task of a batch is logged and passed to the onError         *)
(* callback if there is one; without one nothing is thrown; and onLoaded is  *)
(* still called when the engine reports the batch finished.                  *)
C8_Act ==
    \A i \in DOMAIN am.tasks :
        (am.tasks[i].state = "running" /\ i \in DOMAIN am'.tasks /\ am'.tasks[i].state = "error") =>
            LET new == SubSeq(calls', Len(calls) + 1, Len(calls')) IN
            /\ cons' > cons
            /\ ~thrown'
            /\ am.onErrorCallback # NULL =>
                  \E k \in DOMAIN new : new[k].cb = "cbError" /\ new[k].task = i
            /\ am.onErrorCallback = NULL => \A k \in DOMAIN new : new[k].cb # "cbError"
            /\ (am'.waiting = 0 /\ am.onLoadedCallback # NULL) =>
                  (Len(new) > 0 /\ new[Len(new)].cb = "cbLoaded")

C8_TaskFailure == [][C8_Act]_vars

C8_Witness ==
    /\ unit.mode = "assets"
    /\ SomeTaskFailed
    /\ am.onErrorCallback = NULL
    /\ ~am.isLoading
    /\ Len(calls) > 0
    /\ calls[Len(calls)].cb = "cbLoaded"

(* C9: one application instance has at most one asset-load batch in flight:  *)
(* initialize runs once, Scene.loadAssets is called at most once, and the    *)
(* callbacks kept by the AssetManager are not replaced while a batch loads.  *)
C9_Inv ==
    /\ app.initCalls <= 1
    /\ sc.loadAssetsCalls <= 1
    /\ am.loadCalls <= 1

C9_Act ==
    am.isLoading =>
        /\ am'.onLoadedCallback = am.onLoadedCallback
        /\ am'.onProgressCallback = am.onProgressCallback
        /\ am'.onErrorCallback = am.onErrorCallback
        /\ am'.loadCalls = am.loadCalls

C9_OneBatch == []C9_Inv /\ [][C9_Act]_vars

C9_Witness == am.isLoading /\ am.waiting < am.total /\ app.initCalls = 1 /\ app.pc = "failed"

(* C10: setupLights creates exactly one light per call, of the kind its      *)
(* lightData.type selects: POINT a point light, SPOT a spot light, SUN and   *)
(* DIRECTIONAL a directional light, anything else (a missing type too) a     *)
(* hemispheric light; no type throws or leaves the light out.                *)
ExpectedKind(type) ==
    CASE type = "POINT" -> "point"
      [] type = "SPOT" -> "spot"
      [] type = "SUN" -> "directional"
      [] type = "DIRECTIONAL" -> "directional"
      [] OTHER -> "hemispheric"

C10_OneLightPerCall ==
    unit.mode = "lights" =>
        /\ Len(sc.lights) = Len(unit.lightCalls)
        /\ \A i \in DOMAIN unit.lightCalls :
              sc.lights[i].kind = ExpectedKind(unit.lightCalls[i].type)
        /\ ~thrown

C10_Witness ==
    /\ Len(unit.lightCalls) = 2
    /\ unit.lightCalls[1].type = "SUN" /\ unit.lightCalls[1].castShadows
    /\ unit.lightCalls[2].type = "undefined"
    /\ Len(sc.lights) = 2

(* C11: for every light type setupLights selects (POINT, SPOT, SUN,           *)
(* DIRECTIONAL and the default), a light made from an entry with a color has  *)
(* that color as diffuse and specular, one made from an entry with an        *)
(* intensity has that intensity, and a field the entry does not carry leaves *)
(* the engine default (white, 1.0).                                          *)
PropertiesApplied(lightData, light) ==
    /\ light.diffuse = (IF lightData.color # NoColor THEN lightData.color ELSE White)
    /\ light.specular = light.diffuse
    /\ light.intensity = (IF lightData.intensity # NoIntensity THEN lightData.intensity[1] ELSE 10)

C11_ColorAndIntensity ==
    unit.mode = "lights" =>
        \A i \in DOMAIN unit.lightCalls :
            i \in DOMAIN sc.lights => PropertiesApplied(unit.lightCalls[i], sc.lights[i])

(* the same for the three typed factories alone: these do apply the fields *)
C11_TypedLights ==
    unit.mode = "lights" =>
        \A i \in DOMAIN unit.lightCalls :
            (i \in DOMAIN sc.lights /\ sc.lights[i].kind # "hemispheric")
                => PropertiesApplied(unit.lightCalls[i], sc.lights[i])

C11_Witness ==
    /\ unit.mode = "lights" /\ Len(sc.lights) = 1
    /\ unit.lightCalls[1].type = "AREA"
    /\ unit.lightCalls[1].color = Red /\ unit.lightCalls[1].intensity = <<20>>
    /\ sc.lights[1].diffuse = White /\ sc.lights[1].intensity = 10

(* C12: for the identity matrix applyTransformation puts the camera at the   *)
(* zero vector and gives it the rotation (0, -pi, 0): the half turn about    *)
(* the Y axis the decoder adds, with the Y angle negated.                    *)
C12_IdentityHalfTurn ==
    (unit.mode = "decode" /\ unit.matrix = Identity /\ unit.cameras[FALSE].created) =>
        /\ unit.cameras[FALSE].position = <<0, 0, 0>>
        /\ unit.cameras[FALSE].rotation = Euler(0, -Pi, 0)

(* C12 as stated: the identity matrix gives position zero and rotation       *)
(* (0, 0, 0).                                                                *)
C12_IdentityZeroRotation ==
    (unit.mode = "decode" /\ unit.matrix = Identity /\ unit.cameras[FALSE].created) =>
        /\ unit.cameras[FALSE].position = <<0, 0, 0>>
        /\ unit.cameras[FALSE].rotation = Euler(0, 0, 0)

C12_Witness ==
    /\ unit.mode = "decode" /\ unit.matrix = Identity
    /\ unit.cameras[FALSE].created /\ unit.cameras[FALSE].rotation.whole
    /\ unit.cameras[FALSE].rotation.y = -Pi

(* C13: for a transform M and the transform M' with only the X translation   *)
(* (element 12) negated, the decoded position of M' has the negated X of the *)
(* decoded position of M and the same Y and Z, for the camera decoder and     *)
(* for the light decoders.                                                   *)
NegatedX(p, q) == q[1] = -p[1] /\ q[2] = p[2] /\ q[3] = p[3]

C13_NegatedX ==
    (unit.mode = "decode" /\ unit.matrix # NoMatrix) =>
        /\ (unit.cameras[FALSE].created /\ unit.cameras[TRUE].created)
              => NegatedX(unit.cameras[FALSE].position, unit.cameras[TRUE].position)
        /\ (unit.lightsAt[FALSE].kind # "none" /\ unit.lightsAt[TRUE].kind # "none")
              => NegatedX(unit.lightsAt[FALSE].position, unit.lightsAt[TRUE].position)

(* what the decoders do: the position is read from elements 3, 7, 11 (the    *)
(* bottom row of the column-major array), whatever elements 12, 13, 14 hold  *)
C13_BottomRowDecoded ==
    (unit.mode = "decode" /\ unit.matrix # NoMatrix) =>
        \A negX \in BOOLEAN :
            LET p == <<-El(unit.matrix, 3), El(unit.matrix, 7), El(unit.matrix, 11)>> IN
            /\ unit.cameras[negX].created => unit.cameras[negX].position = p
            /\ unit.lightsAt[negX].kind # "none" => unit.lightsAt[negX].position = p

C13_Witness ==
    /\ unit.mode = "decode" /\ unit.matrix # NoMatrix
    /\ El(unit.matrix, 12) = 1 /\ El(unit.matrix, 3) = 1
    /\ unit.cameras[FALSE].created /\ unit.cameras[TRUE].created
    /\ unit.cameras[TRUE].position = unit.cameras[FALSE].position

(* C14: projectData is assigned once, when the manifest has been loaded, and  *)
(* no later step of the application changes any field of it: the transform   *)
(* arrays of the camera and of the lights stay as they were loaded.          *)
C14_Act ==
    /\ app'.projectData # app.projectData
          => (app.pc = "awaitManifest" /\ app.projectData = NoProject)
    /\ app.pc \notin {"new", "awaitManifest"} => app'.pc \notin {"new", "awaitManifest"}

C14_ProjectDataFrame == [][C14_Act]_vars

C14_Witness ==
    /\ app.pc = "ready"
    /\ app.projectData.v.camera.matrix = CameraMatrix
    /\ sc.activeCamera.kind = "universal"
    /\ Len(sc.lights) = 1 /\ app.projectData.v.lights[1].matrix = LightMatrix

(* C15: every percent passed to updateLoadingProgress is a whole number in    *)
(* 0..100; the value the asset-progress callback passes when a task is over  *)
(* is 50 + floor(20 * (total - remaining) / total), lies in 50..70 and is    *)
(* not below the value reported before it in the batch.                      *)
RECURSIVE LastNonZero(_)
LastNonZero(percents) ==
    IF percents = <<>> THEN 0
    ELSE IF percents[Len(percents)] # 0 THEN percents[Len(percents)]
    ELSE LastNonZero(SubSeq(percents, 1, Len(percents) - 1))

C15_Inv == \A i \in DOMAIN ui.log : ui.log[i] \in 0..100

C15_Act ==
    (am.onProgressCallback = "sceneProgress" /\ am'.waiting = am.waiting - 1) =>
        LET total == am.total
            remaining == am'.waiting
            percent == ui'.log[Len(ui'.log)]
        IN /\ total >= 1
           /\ Len(ui'.log) = Len(ui.log) + 1
           /\ SubSeq(ui'.log, 1, Len(ui.log)) = ui.log
           /\ percent = 50 + ((20 * (total - remaining)) \div total)
           /\ percent \in 50..70
           /\ percent >= LastNonZero(ui.log)

C15_ProgressPercent == []C15_Inv /\ [][C15_Act]_vars

C15_Witness ==
    /\ am.onProgressCallback = "sceneProgress"
    /\ am.total = 3 /\ am.waiting = 1
    /\ ui.log = <<10, 20, 30, 40, 50, 56, 63>>

(* C16: the render loop is started at most once, and only when               *)
(* Scene.initialize has resolved; 100 is reported only when the render loop  *)
(* has been started; the loading screen fades and is taken away only when    *)
(* 100 has been reported, so it stays when initialize has failed.            *)
C16_Inv ==
    /\ app.renderLoops <= 1
    /\ app.renderLoops = 1 =>
          (sc.phases = PhaseOrder /\ sc.promise = "resolved" /\ Reported(80) /\ ~SomeTaskFailed)
    /\ Reported(100) => app.renderLoops = 1
    /\ (ui.opacity = "0" \/ ui.display = "none") => (Reported(100) /\ app.pc = "ready")
    /\ ui.display = "none" => ui.opacity = "0"
    /\ app.pc = "failed" => (ui.opacity = "1" /\ ui.display = "block" /\ app.timer = "none")

C16_Act == app.pc = "failed" => app'.pc = "failed"

C16_RenderLoopAndScreen == []C16_Inv /\ [][C16_Act]_vars

C16_Witness ==
    /\ app.pc = "ready" /\ app.renderLoops = 1 /\ am.total >= 1
    /\ ui.display = "none" /\ ui.opacity = "0" /\ LastReported = 100

(* C17: when initialize has reported an error (percent 0, 'Error: ...'), no  *)
(* later event changes the percent or the message on the loading screen: the *)
(* progress callbacks of the tasks still running do not write over it.       *)
C17_Act ==
    (app.pc = "failed" /\ ui.message.prefix = "Error: ") =>
        (ui'.percent = ui.percent /\ ui'.message = ui.message)

C17_ErrorDisplayKept == [][C17_Act]_vars

(* the failing state: the error was reported, a task ended after it, and the  *)
(* screen shows the progress of the batch again                               *)
C17_Witness ==
    /\ app.pc = "failed" /\ sc.promise = "rejected"
    /\ \E i \in DOMAIN ui.log : ui.log[i] = 0
    /\ ui.percent >= 50 /\ ui.message = Msg("Loading assets...")

(* C18: where the fetch of the manifest ends and the engine ends every task  *)
(* of every batch it started (a batch of no task too), initialize ends: it   *)
(* reports 100 or it reports an error; it does not stay in the await of the  *)
(* asset load.                                                               *)
Terminated ==
    \/ app.pc = "ready" /\ Reported(100)
    \/ app.pc = "failed" /\ Reported(0)

C18_Terminates == <>Terminated

C18_Witness ==
    /\ app.pc = "ready" /\ Reported(100)
    /\ sc.loadAssetsCalls = 1 /\ am.total = 0 /\ sc.promise = "resolved"

(* C19: for each task that fails, the onError callback given to              *)
(* AssetManager.loadAssets is called exactly once for that task, whatever    *)
(* the type of the asset (model, texture, audio, hdr).                       *)
ErrorCalls(new, task) == Cardinality({k \in DOMAIN new : new[k].cb = "cbError" /\ new[k].task = task})

C19_Act ==
    \A i \in DOMAIN am.tasks :
        (/\ am.tasks[i].state = "running"
         /\ i \in DOMAIN am'.tasks /\ am'.tasks[i].state = "error"
         /\ am.onErrorCallback = "cbError") =>
            ErrorCalls(SubSeq(calls', Len(calls) + 1, Len(calls')), i) = 1

C19_ErrorCalledOnce == [][C19_Act]_vars

(* the same for the tasks the manager gives no onError of their own: the     *)
(* texture, audio and hdr tasks                                              *)
C19_OtherTypesAct ==
    \A i \in DOMAIN am.tasks :
        (/\ am.tasks[i].state = "running" /\ am.tasks[i].type # "model"
         /\ i \in DOMAIN am'.tasks /\ am'.tasks[i].state = "error"
         /\ am.onErrorCallback = "cbError") =>
            ErrorCalls(SubSeq(calls', Len(calls) + 1, Len(calls')), i) = 1

C19_OtherTypesOnce == [][C19_OtherTypesAct]_vars

(* the failing state: one model task, failed, and two calls of onError *)
C19_Witness ==
    /\ unit.mode = "assets" /\ Len(unit.assetList) = 1 /\ unit.assetList[1].type = "model"
    /\ am.tasks[1].state = "error"
    /\ ErrorCalls(calls, 1) = 2

(* C20: once Scene.setupLights has been called, the scene holds one light   *)
(* per entry of scene_lights that comes before the first null entry, of the  *)
(* kind the entry's type selects, and no default light, where scene_lights   *)
(* has entries; the call throws exactly where an entry is null. Where        *)
(* scene_lights is missing or empty the scene holds the two default lights   *)
(* and no other: a hemispheric light of intensity 0.7, then a directional    *)
(* light of intensity 0.5 with a shadow generator.                           *)
LightsCalled == \E i \in DOMAIN sc.phases : sc.phases[i] = "lights"

IsDefaultHemispheric(light) ==
    light.kind = "hemispheric" /\ light.intensity = 7 /\ ~light.shadows

IsDefaultDirectional(light) ==
    light.kind = "directional" /\ light.intensity = 5 /\ light.shadows

BeforeFirstNull(entries) ==
    {i \in DOMAIN entries : \A j \in 1..i : ~entries[j].isNull}

LightsMade(entries, made) ==
    IF Len(entries) > 0
    THEN /\ Len(sc.lights) = Cardinality(made)
         /\ \A i \in made :
               /\ sc.lights[i].kind = ExpectedKind(entries[i].type)
               /\ ~IsDefaultHemispheric(sc.lights[i])
               /\ ~IsDefaultDirectional(sc.lights[i])
    ELSE /\ Len(sc.lights) = 2
         /\ IsDefaultHemispheric(sc.lights[1])
         /\ IsDefaultDirectional(sc.lights[2])

C20_LightsOfTheScene ==
    LightsCalled =>
        LET entries == app.projectData.v.lights IN
        /\ LightsMade(entries, BeforeFirstNull(entries))
        /\ (app.pc = "failed") <=> (BeforeFirstNull(entries) # DOMAIN entries)

(* C20 as stated: one light per entry whenever scene_lights has entries *)
C20_OneLightPerEntry ==
    LightsCalled =>
        LightsMade(app.projectData.v.lights, DOMAIN app.projectData.v.lights)

C20_Witness ==
    /\ app.pc = "ready"
    /\ Len(app.projectData.v.lights) = 2 /\ Len(sc.lights) = 2
    /\ sc.lights[1].kind = "point" /\ sc.lights[2].kind = "hemispheric"

(* the other cases of C20: no entry, the two default lights; a null entry *)
C20_DefaultsWitness ==
    /\ app.pc = "ready" /\ app.projectData.v.lights = <<>>
    /\ Len(sc.lights) = 2 /\ sc.lights[2].shadows

C20_NullEntryWitness ==
    /\ app.pc = "failed" /\ LightsCalled
    /\ Len(app.projectData.v.lights) = 2 /\ Len(sc.lights) = 1

(* C21: a light of the scene has a shadow generator only if it is a          *)
(* directional light made from an entry with castShadows set, or the default *)
(* directional light; the render list of its shadow map holds exactly the    *)
(* meshes of the scene whose name does not contain "skyBox", each of them    *)
(* marked as receiving shadows; lights exist only when no task of the asset  *)
(* load is left to end, so the meshes of every model task that succeeded are *)
(* among them.                                                               *)
ShadowRequested(i) ==
    LET entries == app.projectData.v.lights IN
    IF Len(entries) > 0
    THEN entries[i].type \in {"SUN", "DIRECTIONAL"} /\ entries[i].castShadows
    ELSE i = 2

C21_DefaultWitness ==
    /\ app.pc = "ready" /\ app.projectData.v.lights = <<>>
    /\ sc.lights[2].renderList = LoadedMeshes(1)

(* C22: a camera and a point, spot or directional light set up from the     *)
(* same array of 16 numbers get the same position: the position the          *)
(* decomposition of the transposed matrix gives, with X negated and Y and Z  *)
(* as they are.  The same holds for the array with element 12 negated.       *)
C22_DecodersAgree ==
    (/\ unit.mode = "decode" /\ unit.matrix # NoMatrix
     /\ unit.cameras[FALSE].created /\ unit.lightsAt[FALSE].kind # "none") =>
        \A negX \in BOOLEAN :
            LET matrix == IF negX THEN NegateX(unit.matrix) ELSE unit.matrix
                position == Decompose(Transpose(matrix)).position
            IN /\ unit.lightsAt[negX].kind \in {"point", "spot", "directional"}
               /\ unit.lightsAt[negX].position = unit.cameras[negX].position
               /\ unit.cameras[negX].position = <<-position[1], position[2], position[3]>>

C22_Witness ==
    /\ unit.mode = "decode" /\ unit.matrix # NoMatrix
    /\ unit.cameras[FALSE].created /\ unit.lightsAt[FALSE].kind = "point"
    /\ unit.cameras[FALSE].position = <<-1, 1, 0>>
    /\ El(unit.matrix, 12) = 1 /\ El(unit.matrix, 13) = 0

(* C23: resize can be called at every point of the life of the app after    *)
(* the constructor has returned; a call never throws, it calls               *)
(* engine.resize once when the engine has been created and does nothing      *)
(* otherwise.                                                                *)
C23_Inv ==
    /\ ~thrown
    /\ app.engineResizes <= app.resizeCalls
    /\ app.engineResizes > 0 => app.engine

C23_Act ==
    app'.resizeCalls # app.resizeCalls =>
        /\ app'.resizeCalls = app.resizeCalls + 1
        /\ app'.engineResizes = app.engineResizes + (IF app.engine THEN 1 ELSE 0)
        /\ app' = [app EXCEPT !.resizeCalls = app'.resizeCalls,
                              !.engineResizes = app'.engineResizes]
        /\ UNCHANGED <<ui, cons, sc, am, calls, thrown>>

C23_ResizeAnyTime == []C23_Inv /\ [][C23_Act]_vars

(* resize before the manifest is there, and again after a failed run that   *)
(* had created the engine                                                   *)
C23_Witness ==
    /\ app.pc = "failed" /\ app.engine
    /\ app.resizeCalls = 2 /\ app.engineResizes = 1

C23_DuringWitness == app.pc = "awaitAssets" /\ app.engineResizes = 1

C23_AfterWitness == app.pc = "ready" /\ app.timer = "done" /\ app.engineResizes = 2

(* C24: for the camera setupCamera made, the speed is 20 when the last      *)
(* event of the Shift key was a keydown and 2 otherwise, only an event of    *)
(* the Shift key changes the speed, only a keydown of the space key changes  *)
(* applyGravity, and applyGravity is as the manifest set it exactly when the *)
(* space key went down an even number of times.                              *)
C24_Inv ==
    sc.activeCamera.kind = "universal" =>
        /\ sc.activeCamera.speed \in {2, 20}
        /\ sc.activeCamera.speed = 20 <=> ui.lastShift = "down"
        /\ sc.activeCamera.applyGravity = app.projectData.v.camera.applyGravity
               <=> ~ui.spaceOdd

C24_Act ==
    sc.activeCamera.kind = "universal" =>
        /\ sc'.activeCamera.speed # sc.activeCamera.speed =>
              ui'.lastEvent.key = "Shift" /\ ui'.lastShift # ui.lastShift
        /\ sc'.activeCamera.applyGravity # sc.activeCamera.applyGravity =>
              ui'.lastEvent = [type |-> "keydown", key |-> " "] /\ ui'.spaceOdd # ui.spaceOdd
        /\ ui'.spaceOdd # ui.spaceOdd =>
              sc'.activeCamera.applyGravity # sc.activeCamera.applyGravity

C24_ShiftAndSpace == []C24_Inv /\ [][C24_Act]_vars

(* Shift is held, another key has just gone up, gravity was toggled once *)
C24_Witness ==
    /\ sc.activeCamera.kind = "universal"
    /\ sc.activeCamera.speed = 20
    /\ ui.lastEvent = [type |-> "keyup", key |-> "w"]
    /\ ui.spaceOdd /\ ~sc.activeCamera.applyGravity

C25_UnlockedWitness ==
    /\ ui.pointerLockElement = NULL /\ ui.lockEvents = 0
    /\ ui.mousemove = <<>> /\ ui.lastMove = 1

====
